---- MODULE Spec2Model ----
(***************************************************************************)
(* The COCO dataset pipeline of torchvision.prototype.datasets._builtin.   *)
(* coco: metadata files are demultiplexed by file name, each JSON document *)
(* is demultiplexed by top-level key, annotations are grouped by image_id  *)
(* and joined with the image records, the per-kind streams are             *)
(* concatenated, regrouped by image id, collated, joined with the image    *)
(* archive by file name and decoded.                                       *)
(*                                                                         *)
(* Strings that the code parses (archive entry names) are sequences of     *)
(* tokens, each token a maximal run of letters, a maximal run of digits,   *)
(* or one of the literals "_", ".json", ".jpg", ".txt", ".bak".  A path is *)
(* a sequence of such names, one per path component.                       *)
(***************************************************************************)
EXTENDS Integers, Sequences, FiniteSets, TLC

VARIABLES
    config,          \* DatasetConfig: split, year, instances, captions
    meta_archive,    \* entries (path, document) the metadata ZipArchiveReader yields
    images_archive,  \* entries (path, buffer) of the image archive
    categories,      \* self.categories: the vocabulary the dataset holds
    pc,              \* position of the pass
    meta_pos,        \* number of metadata entries the file demultiplexer has read
    file_channels,   \* output channels of the metadata-file Demultiplexer, one per selected kind
    images_meta,     \* per kind: unbatched "images" channel of the JSON Demultiplexer
    anns_meta,       \* per kind: unbatched "annotations" channel of the JSON Demultiplexer
    partial_groups,  \* per kind: output of Grouper(group_key_fn=getitem("image_id"))
    partial_anns,    \* per kind: output of _make_partial_anns_dp
    entity_groups,   \* output of Grouper(group_key_fn=getitem(1, "id")) over the Concater
    anns_dp,         \* output of _make_anns_dp: (file_name, kind mapping) pairs
    zipped,          \* output of the final IterKeyZipper, not yet collated
    samples,         \* FinalSamples handed to the consumer
    decoded,         \* results of calling a kind's decoder on single annotation records
    error,           \* exception that ended the pass, "" if none
    classify_calls,  \* calls of _classify_meta made so far: (data, result) pairs
    first_pass,      \* what the pass of an earlier pipeline over these inputs yielded
    grouper          \* a Grouper pulled item by item: source, items read, buffer, output

\* what a pass is given
inputs == <<config, meta_archive, images_archive, categories>>

\* what the datapipes between the file demultiplexer and the final Mapper hold
stages == <<images_meta, anns_meta, partial_groups, partial_anns, entity_groups,
            anns_dp, zipped>>

\* what the specifications of single components record
units == <<classify_calls, first_pass, grouper>>

vars == <<inputs, pc, meta_pos, file_channels, stages, samples, decoded, error, units>>

----------------------------------------------------------------------------
(* Bounds of the model *)

\* longest metadata archive and longest image archive, in entries
MaxEntries == 2
\* most image records in one metadata document
MaxImages == 2
\* most annotation records in one instances document
MaxAnns == 2
\* most annotation records in one captions document
MaxCaptions == 1
\* most categories in the vocabulary source
MaxCategories == 2

----------------------------------------------------------------------------
(* Generic helpers *)

RECURSIVE SeqsUpTo(_, _)
\* all sequences over S of length at most n
SeqsUpTo(S, n) ==
    IF n = 0 THEN {<<>>}
    ELSE LET shorter == SeqsUpTo(S, n - 1)
         IN  shorter \cup {Append(s, x) : s \in {t \in shorter : Len(t) = n - 1}, x \in S}

RECURSIVE Flatten(_)
\* concatenation of a sequence of sequences
Flatten(ss) == IF ss = <<>> THEN <<>> ELSE Head(ss) \o Flatten(Tail(ss))

Range(s) == {s[i] : i \in DOMAIN s}

\* number of positions of s that hold x
Count(s, x) == Cardinality({i \in DOMAIN s : s[i] = x})

\* no earlier pipeline has been built over the inputs
NoPass == [built |-> FALSE]

\* no Grouper is followed item by item
NoGrouper == [of |-> "none"]

\* results of a Python call: a returned value, None, or a raised exception
Return(v) == [tag |-> "return", val |-> v]
ReturnNone == [tag |-> "None"]
Raise(e) == [tag |-> "raise", exc |-> e]

----------------------------------------------------------------------------
(* Annotation kinds and configuration *)

_ANN_TYPES == <<"instances", "captions">>
_ANN_TYPE_DEFAULTS == <<TRUE, FALSE>>

Splits == {"train", "val"}
Years == {"2017", "2014"}

\* config[type] for an annotation kind
ConfigKind(cfg, type) == IF type = "instances" THEN cfg.instances ELSE cfg.captions

\* ann_types = [type for type in self._ANN_TYPES if config[type]]
AnnTypes(cfg) == SelectSeq(_ANN_TYPES, LAMBDA t : ConfigKind(cfg, t))

\* dict(zip(ann_types, range(len(ann_types)))): kind -> zero-based channel
TypeIdcs(types) == [t \in Range(types) |-> (CHOOSE i \in DOMAIN types : types[i] = t) - 1]

\* valid configurations with at least one kind selected
Configs ==
    {c \in [split : Splits, year : Years, instances : BOOLEAN, captions : BOOLEAN] :
        c.instances \/ c.captions}

----------------------------------------------------------------------------
(* File names and the filename classifier *)

AlphaTokens == {"instances", "captions", "train", "val", "person", "keypoints", "README"}
DigitTokens == {"2014", "2017", "000001", "000002"}

NoMatch == [matched |-> FALSE]

\* re.compile("(?P<ann_type>(instances|captions))_(?P<split>[a-zA-Z]+)(?P<year>\d+)[.]json")
\* used with .match: anchored at the start of the name, not at its end
_META_FILE_PATTERN(name) ==
    IF /\ Len(name) >= 5
       /\ name[1] \in Range(_ANN_TYPES)
       /\ name[2] = "_"
       /\ name[3] \in AlphaTokens
       /\ name[4] \in DigitTokens
       /\ name[5] = ".json"
    THEN [matched |-> TRUE, ann_type |-> name[1], split |-> name[3], year |-> name[4]]
    ELSE NoMatch

\* pathlib.Path(path).name: the last component
PathName(path) == path[Len(path)]

\* body of _classifiy_meta_files(data, *, split, year, ann_type_idcs)
_classifiy_meta_files(data, split, year, ann_type_idcs) ==
    LET match == _META_FILE_PATTERN(PathName(data[1]))
    IN  IF ~match.matched \/ match.split # split \/ match.year # year
        THEN ReturnNone
        ELSE IF match.ann_type \in DOMAIN ann_type_idcs
             THEN Return(ann_type_idcs[match.ann_type])
             ELSE ReturnNone

\* keyword-only parameters that _classifiy_meta_files declares
ClassifyParameters == {"split", "year", "ann_type_idcs"}

\* keywords that functools.partial binds in _make_anns_dp
PartialKeywords == {"split", "year", "type_idcs"}

\* Python's binding of keyword arguments: a keyword the callee does not
\* declare, or a keyword-only parameter left unbound, raises TypeError
\* before the body runs
CallWithKeywords(keywords, parameters, result) ==
    IF keywords = parameters THEN result ELSE Raise("TypeError")

\* the classifier as the metadata-file Demultiplexer calls it
ClassifyMetaFilePartial(data, cfg) ==
    CallWithKeywords(PartialKeywords, ClassifyParameters,
        _classifiy_meta_files(data, cfg.split, cfg.year, TypeIdcs(AnnTypes(cfg))))

----------------------------------------------------------------------------
(* Records of the metadata documents and entries of the archives *)

ImageIds == {1, 2}

\* file_name of the image record with the given id: "000001.jpg", "000002.jpg"
FileName(id) == <<IF id = 1 THEN "000001" ELSE "000002", ".jpg">>

ImageRecord(id) == [id |-> id, file_name |-> FileName(id)]

\* raw category ids of the dataset; they have gaps
CategoryIds == {1, 3, 7}

\* an annotation record of the instances file
InstancesAnn(id, image_id, category_id) ==
    [id |-> id, image_id |-> image_id, area |-> 100, iscrowd |-> 0,
     bbox |-> <<0, 0, 10, 10>>, category_id |-> category_id]

\* an annotation record of the captions file
CaptionsAnn(id, image_id) == [id |-> id, image_id |-> image_id, caption |-> "text"]

\* the file an annotation record was read from, told by its fields
KindOf(ann) == IF "caption" \in DOMAIN ann THEN "captions" ELSE "instances"

\* the annotations list of a document of the given kind, one record per
\* referenced image id; ids are unique within the kind
MakeAnns(kind, image_ids) ==
    [i \in DOMAIN image_ids |->
        IF kind = "instances"
        THEN InstancesAnn(10 + i, image_ids[i], 3)
        ELSE CaptionsAnn(20 + i, image_ids[i])]

\* names of categories
CategoryNames == {"cat", "dog", "person"}

\* the categories list of the canonical metadata documents
StandardCategories ==
    <<[name |-> "dog", id |-> 3], [name |-> "cat", id |-> 1], [name |-> "person", id |-> 7]>>

\* orders in which a document lists its top-level keys
KeyOrders ==
    {<<"categories", "images", "annotations">>, <<"annotations", "images", "categories">>}

\* a parsed JSON document as the sequence of its (key, value) items
MakeDoc(order, images, anns, cats) ==
    [i \in DOMAIN order |->
        <<order[i], IF order[i] = "images" THEN images
                    ELSE IF order[i] = "annotations" THEN anns ELSE cats>>]

ImageLists == SeqsUpTo({ImageRecord(id) : id \in ImageIds}, MaxImages)

\* the image ids that the annotations of a document of the given kind reference
ImageIdLists(kind) ==
    SeqsUpTo(ImageIds, IF kind = "instances" THEN MaxAnns ELSE MaxCaptions)

\* paths of image archive entries: at the root or under a directory
ImagePaths == {<<FileName(1)>>, <<<<"train", "2017">>, FileName(2)>>}

\* an entry (path, buffer) of the image archive; the buffer is named after the path
ImageEntry(path) == <<path, [bytes_of |-> path]>>

ImageArchives == SeqsUpTo({ImageEntry(p) : p \in ImagePaths}, MaxEntries)

----------------------------------------------------------------------------
(* The datapipes the pipeline is built from *)

RECURSIVE Dedup(_)
\* the distinct elements of a sequence in first-seen order
Dedup(s) ==
    IF s = <<>> THEN <<>>
    ELSE LET front == Dedup(SubSeq(s, 1, Len(s) - 1))
         IN  IF s[Len(s)] \in Range(front) THEN front ELSE Append(front, s[Len(s)])

\* the items of s at the positions in keep, in order
Pick(s, keep) ==
    LET positions == SelectSeq([i \in DOMAIN s |-> i], LAMBDA i : i \in keep)
    IN  [k \in DOMAIN positions |-> s[positions[k]]]

\* Demultiplexer(source, n, classify, drop_none=True), given classify's
\* result for each item: channel c holds, in arrival order, the items
\* classified c; items classified None are dropped
Demultiplexer(source, n, classified) ==
    [c \in 1..n |-> Pick(source, {i \in DOMAIN source : classified[i] = Return(c - 1)})]

\* UnBatcher: the items of each batch, in order
UnBatcher(source) == Flatten(source)

\* Grouper(source, group_key_fn, buffer_size=INFINITE), given each item's
\* key: at source exhaustion, one list per distinct key in first-seen key
\* order, items in arrival order
Grouper(source, keys) ==
    LET distinct == Dedup(keys)
    IN  [g \in DOMAIN distinct |->
            Pick(source, {i \in DOMAIN source : keys[i] = distinct[g]})]

\* IterKeyZipper(source, ref, key_fn, ref_key_fn, buffer_size=INFINITE),
\* given each item's key: inner join; each source item is paired with the
\* first ref item of equal key, and a source item without one is dropped
IterKeyZipper(source, ref, keys, ref_keys) ==
    LET matched == Pick([i \in DOMAIN source |-> i],
                        {i \in DOMAIN source : \E j \in DOMAIN ref : ref_keys[j] = keys[i]})
        FirstRef(i) == CHOOSE j \in DOMAIN ref :
                          /\ ref_keys[j] = keys[i]
                          /\ \A k \in 1..(j - 1) : ref_keys[k] # keys[i]
    IN  [k \in DOMAIN matched |-> <<source[matched[k]], ref[FirstRef(matched[k])]>>]

\* Concater(*dps): the datapipes one after another
Concater(dps) == Flatten(dps)

----------------------------------------------------------------------------
(* _make_partial_anns_dp *)

\* a classifier whose second branch takes every key that is not "images"
_classify_meta_ElseAnnotations(data) ==
    IF data[1] = "images" THEN Return(0) ELSE Return(1)

\* _classify_meta(data): channel of a (key, value) item of a document
_classify_meta(data) ==
    IF data[1] = "images" THEN Return(0)
    ELSE IF data[1] = "annotations" THEN Return(1)
    ELSE ReturnNone

\* JsonParser, getitem(1), MappingIterator: the (key, value) items of the
\* documents of a channel, document after document
MetaItems(channel) == Flatten([i \in DOMAIN channel |-> channel[i][2]])

\* Demultiplexer(meta_dp, 2, self._classify_meta, drop_none=True)
MetaDemux(channel) ==
    LET items == MetaItems(channel)
    IN  Demultiplexer(items, 2, [i \in DOMAIN items |-> _classify_meta(items[i])])

\* getitem(1) and UnBatcher on a channel of the JSON demultiplexer
MetaRecords(items) == UnBatcher([i \in DOMAIN items |-> items[i][2]])

\* a grouper keyed by the annotation's own id instead of its image_id
AnnsGroupKeyFn_OwnId(ann) == ann.id

\* group_key_fn=getitem("image_id")
AnnsGroupKeyFn(ann) == ann.image_id

\* a join keyed by the id of the group's first annotation instead of its image_id
PartialKeyFn_OwnId(group) == group[1].id

\* key_fn=getitem(0, "image_id") of the join with the image records
PartialKeyFn(group) == group[1].image_id

\* ref_key_fn=getitem("id") of the join with the image records
PartialRefKeyFn(image) == image.id

----------------------------------------------------------------------------
(* _make_anns_dp, downstream of the metadata-file demultiplexer *)

\* _make_partial_anns_dp(dp): the three datapipes it chains
\* no grouping: every annotation is a group of its own
PartialGroups_Singletons(anns) == [i \in DOMAIN anns |-> <<anns[i]>>]

PartialGroups(anns) == Grouper(anns, [i \in DOMAIN anns |-> AnnsGroupKeyFn(anns[i])])

\* a join without a buffer: a group is paired with the image record that
\* arrives at its own position, if that one has its key
PartialAnns_Positional(groups, images) ==
    LET matched == Pick([i \in DOMAIN groups |-> i],
                        {i \in DOMAIN groups :
                            i \in DOMAIN images /\ images[i].id = groups[i][1].image_id})
    IN  [k \in DOMAIN matched |-> <<groups[matched[k]], images[matched[k]]>>]

\* a join whose buffer of image records is shared between pipelines and
\* was drained by the pass of an earlier one
PartialAnns_SharedBuffer(groups, images) ==
    IF first_pass = NoPass
    THEN IterKeyZipper(groups, images,
                       [i \in DOMAIN groups |-> groups[i][1].image_id],
                       [j \in DOMAIN images |-> images[j].id])
    ELSE <<>>

PartialAnns(groups, images) ==
    IterKeyZipper(groups, images,
                  [i \in DOMAIN groups |-> PartialKeyFn(groups[i])],
                  [j \in DOMAIN images |-> PartialRefKeyFn(images[j])])

\* a grouper keyed by the id of the first annotation instead of the image's id
EntityGroupKeyFn_AnnId(pair) == pair[1][1].id

\* group_key_fn=getitem(1, "id") of the Grouper over the concatenation
EntityGroupKeyFn(pair) == pair[2].id

\* dict(zip(types, ann_data)): zip stops at the shorter of the two
ZipDict(keys, values) ==
    LET n == IF Len(keys) < Len(values) THEN Len(keys) ELSE Len(values)
    IN  [k \in {keys[i] : i \in 1..n} |->
            values[CHOOSE i \in 1..n : keys[i] = k /\ \A j \in (i + 1)..n : keys[j] # k]]

\* _precollate_anns(data, types=types) -> (file_name, {type: annotations})
_precollate_anns(data, types) ==
    LET ann_data == [i \in DOMAIN data |-> data[i][1]]
        image_data == data[1][2]
    IN  <<image_data.file_name, ZipDict(types, ann_data)>>

----------------------------------------------------------------------------
(* Decoding *)

\* Python values told apart by type: a str never equals an int
PyStr(s) == [str |-> s]
PyInt(n) == [int |-> n]
PyList(items) == [type |-> "list", items |-> items]
PyDict(items) == [type |-> "dict", items |-> items]

RECURSIVE SortedById(_)
\* sorted(categories_and_ids, key=lambda category_and_id: category_and_id[1]),
\* stable
SortedById(s) ==
    IF s = <<>> THEN <<>>
    ELSE LET front == SortedById(SubSeq(s, 1, Len(s) - 1))
             last == s[Len(s)]
             before == SelectSeq(front, LAMBDA c : c.id <= last.id)
             after == SelectSeq(front, LAMBDA c : c.id > last.id)
         IN  before \o <<last>> \o after

\* _generate_categories: the category names of meta["categories"], ascending
\* by numeric id
_generate_categories(meta_categories) ==
    LET ordered == SortedById(meta_categories)
    IN  [i \in DOMAIN ordered |-> PyStr(ordered[i].name)]

\* list.index(x): zero-based position of the first element equal to x
ListIndex(list, x) ==
    IF \E i \in DOMAIN list : list[i] = x
    THEN Return((CHOOSE i \in DOMAIN list :
                    list[i] = x /\ \A j \in 1..(i - 1) : list[j] # x) - 1)
    ELSE Raise("ValueError")

\* a decoder that passes on whatever it is handed and never raises
_decode_instances_ann_Lenient(vocabulary, ann) == Return(ann.items)

\* _decode_instances_ann(self, ann), with self.categories = vocabulary
_decode_instances_ann(vocabulary, ann) ==
    IF ann.type = "list" THEN Raise("TypeError")  \* a list subscripted by a str
    ELSE LET d == ann.items
             category == ListIndex(vocabulary, PyInt(d.category_id))
         IN  IF ~({"area", "iscrowd", "bbox", "category_id"} \subseteq DOMAIN d)
             THEN Raise("KeyError")
             ELSE IF category.tag = "raise" THEN category
             ELSE IF "id" \notin DOMAIN d THEN Raise("KeyError")
             ELSE Return([area |-> d.area, iscrowd |-> d.iscrowd # 0, bbox |-> d.bbox,
                          category |-> category.val, id |-> d.id])

\* _decode_captions_ann(self, ann)
_decode_captions_ann(ann) ==
    IF ann.type = "list" THEN Raise("TypeError")  \* list.pop given a str
    ELSE LET d == ann.items
         IN  IF "image_id" \notin DOMAIN d THEN Raise("KeyError")
             ELSE Return([k \in DOMAIN d \ {"image_id"} |-> d[k]])

\* self._ANN_DECODER_MAP[type](self, ann)
_ANN_DECODER_MAP(type, vocabulary, ann) ==
    IF type = "instances" THEN _decode_instances_ann(vocabulary, ann)
    ELSE _decode_captions_ann(ann)

\* _collate_and_decode_sample(data, decoder=None), with self.categories =
\* vocabulary: the sample, or the exception of the first decoder that raises;
\* the kind keys of the returned dict are kept together under anns
_collate_and_decode_sample(vocabulary, data) ==
    LET anns == data[1][2]
        path == data[2][1]
        buffer == data[2][2]
        results == [type \in DOMAIN anns |->
                       _ANN_DECODER_MAP(type, vocabulary, PyList(anns[type]))]
        raised == {type \in DOMAIN anns : results[type].tag = "raise"}
    IN  IF raised # {}
        THEN results[CHOOSE type \in raised : TRUE]
        ELSE Return([anns |-> [type \in DOMAIN anns |-> results[type].val],
                     path |-> path, image |-> buffer])

\* key_fn=getitem(0) of the join with the image archive
ImageKeyFn(ann_data) == ann_data[1]

\* a join keyed by the first component of the entry's path instead of its name
ImageRefKeyFn_FirstComponent(image_data) == image_data[1][1]

\* ref_key_fn=path_accessor("name") of the join with the image archive
ImageRefKeyFn(image_data) == PathName(image_data[1])

----------------------------------------------------------------------------
(* Inputs of a pass *)

\* base names of metadata archive entries
MetaNames ==
    {<<"instances", "_", "train", "2017", ".json">>,
     <<"captions", "_", "train", "2017", ".json">>,
     <<"instances", "_", "val", "2017", ".json">>,
     <<"captions", "_", "train", "2014", ".json">>,
     <<"person", "_", "keypoints", "_", "train", "2017", ".json">>,
     <<"instances", "_", "train", "2017", ".json", ".bak">>,
     <<"README", ".txt">>}

\* the path of a metadata file in its archive
MetaPath(name) == <<<<"annotations">>, name>>

\* the entry (path, document) of the metadata archive with the given base
\* name; an annotation file describes image 1 and annotates images 1 and 2,
\* so that its second annotation has no image record
MetaEntry(name) ==
    LET match == _META_FILE_PATTERN(name)
    IN  <<MetaPath(name),
          IF match.matched
          THEN MakeDoc(<<"categories", "images", "annotations">>, <<ImageRecord(1)>>,
                       MakeAnns(match.ann_type, <<1, 2>>), StandardCategories)
          ELSE <<>>>>

MetaArchives == SeqsUpTo({MetaEntry(name) : name \in MetaNames}, MaxEntries)

\* the entry of kind type's file for train2017 with the given content
KindEntry(type, order, images, image_ids, cats) ==
    <<MetaPath(<<type, "_", "train", "2017", ".json">>),
      MakeDoc(order, images, MakeAnns(type, image_ids), cats)>>

\* no datapipe has produced anything yet
StagesEmpty ==
    /\ images_meta = <<>>
    /\ anns_meta = <<>>
    /\ partial_groups = <<>>
    /\ partial_anns = <<>>
    /\ entity_groups = <<>>
    /\ anns_dp = <<>>
    /\ zipped = <<>>
    /\ samples = <<>>
    /\ decoded = <<>>
    /\ error = ""
    /\ classify_calls = <<>>
    /\ first_pass = NoPass
    /\ grouper = NoGrouper

\* a dataset with its archives, before _make_datapipe
Init ==
    /\ config \in Configs
    /\ meta_archive \in MetaArchives
    /\ images_archive \in ImageArchives
    /\ categories = _generate_categories(StandardCategories)
    /\ pc = "new"
    /\ meta_pos = 0
    /\ file_channels = <<>>
    /\ StagesEmpty

\* the metadata-file demultiplexer has routed one file per selected kind to
\* that kind's channel; the files list the same images
InitStages ==
    /\ config \in {c \in Configs : c.split = "train" /\ c.year = "2017"}
    /\ \E order \in KeyOrders, images \in ImageLists :
         \E ids \in [1..Len(AnnTypes(config)) -> ImageIdLists("instances")] :
            /\ \A i \in DOMAIN ids : ids[i] \in ImageIdLists(AnnTypes(config)[i])
            /\ file_channels =
                  [i \in DOMAIN ids |->
                      <<KindEntry(AnnTypes(config)[i], order, images, ids[i],
                                  StandardCategories)>>]
    /\ meta_archive = Flatten(file_channels)
    /\ meta_pos = Len(meta_archive)
    /\ images_archive \in ImageArchives
    /\ categories = _generate_categories(StandardCategories)
    /\ pc = "demuxed"
    /\ StagesEmpty

\* lists of categories with distinct numeric ids, in any order
CategoryLists ==
    {cats \in SeqsUpTo([name : CategoryNames, id : CategoryIds], MaxCategories) :
        /\ cats # <<>>
        /\ \A i, j \in DOMAIN cats : i # j => cats[i].id # cats[j].id}

\* the default configuration: each kind at its default, the first split and year
DefaultConfig ==
    [split |-> "train", year |-> "2017",
     instances |-> _ANN_TYPE_DEFAULTS[1], captions |-> _ANN_TYPE_DEFAULTS[2]]

\* before the vocabulary is generated: the canonical instances file lists
\* the categories and holds one annotation of each of them
InitDecode ==
    /\ config = DefaultConfig
    /\ \E cats \in CategoryLists, order \in KeyOrders :
         meta_archive =
            <<<<MetaPath(<<"instances", "_", "train", "2017", ".json">>),
                MakeDoc(order, <<ImageRecord(1)>>,
                        [i \in DOMAIN cats |-> InstancesAnn(10 + i, 1, cats[i].id)],
                        cats)>>>>
    /\ images_archive = <<>>
    /\ categories = <<>>
    /\ pc = "offline"
    /\ meta_pos = 0
    /\ file_channels = <<>>
    /\ StagesEmpty

----------------------------------------------------------------------------
(* Steps of a pass, in the order in which pulling the pipeline runs them *)

\* _make_datapipe builds the datapipes; nothing is read yet
MakeDatapipe ==
    /\ pc = "new"
    /\ pc' = "files"
    /\ file_channels' = [i \in 1..Len(AnnTypes(config)) |-> <<>>]
    /\ UNCHANGED <<units, inputs, meta_pos, stages, samples, decoded, error>>

\* the metadata-file Demultiplexer reads the next entry and classifies it
ClassifyMetaFile ==
    /\ pc = "files"
    /\ meta_pos < Len(meta_archive)
    /\ LET data == meta_archive[meta_pos + 1]
           channel == ClassifyMetaFilePartial(data, config)
       IN  /\ meta_pos' = meta_pos + 1
           /\ pc' = IF channel.tag = "raise" THEN "failed" ELSE pc
           /\ error' = IF channel.tag = "raise" THEN channel.exc ELSE error
           /\ file_channels' =
                 IF channel.tag = "return"
                 THEN [file_channels EXCEPT ![channel.val + 1] = Append(@, data)]
                 ELSE file_channels
    /\ UNCHANGED <<units, inputs, stages, samples, decoded>>

\* the metadata archive is exhausted
MetaFilesExhausted ==
    /\ pc = "files"
    /\ meta_pos = Len(meta_archive)
    /\ pc' = "demuxed"
    /\ UNCHANGED <<units, inputs, meta_pos, file_channels, stages, samples, decoded, error>>

\* per kind: JsonParser, MappingIterator, the Demultiplexer by top-level key
\* and the two UnBatchers
DemuxMeta ==
    /\ pc = "demuxed"
    /\ images_meta' = [i \in DOMAIN file_channels |->
                          MetaRecords(MetaDemux(file_channels[i])[1])]
    /\ anns_meta' = [i \in DOMAIN file_channels |->
                        MetaRecords(MetaDemux(file_channels[i])[2])]
    /\ pc' = "grouping"
    /\ UNCHANGED <<units, inputs, meta_pos, file_channels, partial_groups, partial_anns,
                   entity_groups, anns_dp, zipped, samples, decoded, error>>

\* per kind: Grouper by image_id
GroupAnns ==
    /\ pc = "grouping"
    /\ partial_groups' = [i \in DOMAIN anns_meta |-> PartialGroups(anns_meta[i])]
    /\ pc' = "joining"
    /\ UNCHANGED <<units, inputs, meta_pos, file_channels, images_meta, anns_meta, partial_anns,
                   entity_groups, anns_dp, zipped, samples, decoded, error>>

\* per kind: IterKeyZipper of the groups with the image records
ZipImagesMeta ==
    /\ pc = "joining"
    /\ partial_anns' = [i \in DOMAIN partial_groups |->
                           PartialAnns(partial_groups[i], images_meta[i])]
    /\ pc' = "concat"
    /\ UNCHANGED <<units, inputs, meta_pos, file_channels, images_meta, anns_meta, partial_groups,
                   entity_groups, anns_dp, zipped, samples, decoded, error>>

\* Concater of the kinds and Grouper by image id
ConcatAndGroup ==
    /\ pc = "concat"
    /\ entity_groups' =
          LET anns == Concater(partial_anns)
          IN  Grouper(anns, [i \in DOMAIN anns |-> EntityGroupKeyFn(anns[i])])
    /\ pc' = "precollate"
    /\ UNCHANGED <<units, inputs, meta_pos, file_channels, images_meta, anns_meta, partial_groups,
                   partial_anns, anns_dp, zipped, samples, decoded, error>>

\* Mapper(anns_dp, self._precollate_anns, fn_kwargs=dict(types=ann_types))
PrecollateAnns ==
    /\ pc = "precollate"
    /\ anns_dp' = [i \in DOMAIN entity_groups |->
                      _precollate_anns(entity_groups[i], AnnTypes(config))]
    /\ pc' = "zip"
    /\ UNCHANGED <<units, inputs, meta_pos, file_channels, images_meta, anns_meta, partial_groups,
                   partial_anns, entity_groups, zipped, samples, decoded, error>>

\* IterKeyZipper of the collated entities with the image archive
ZipImages ==
    /\ pc = "zip"
    /\ zipped' = IterKeyZipper(anns_dp, images_archive,
                               [i \in DOMAIN anns_dp |-> ImageKeyFn(anns_dp[i])],
                               [j \in DOMAIN images_archive |-> ImageRefKeyFn(images_archive[j])])
    /\ pc' = "decode"
    /\ UNCHANGED <<units, inputs, meta_pos, file_channels, images_meta, anns_meta, partial_groups,
                   partial_anns, entity_groups, anns_dp, samples, decoded, error>>

\* Mapper(dp, self._collate_and_decode_sample) on the next joined pair, the
\* one after those already turned into samples
CollateAndDecode ==
    /\ pc = "decode"
    /\ Len(samples) < Len(zipped)
    /\ LET sample == _collate_and_decode_sample(categories, zipped[Len(samples) + 1])
       IN  /\ pc' = IF sample.tag = "raise" THEN "failed" ELSE pc
           /\ error' = IF sample.tag = "raise" THEN sample.exc ELSE error
           /\ samples' = IF sample.tag = "raise" THEN samples
                         ELSE Append(samples, sample.val)
    /\ UNCHANGED <<units, inputs, meta_pos, file_channels, stages, decoded>>

\* the pipeline is exhausted
Exhausted ==
    /\ pc = "decode"
    /\ Len(samples) = Len(zipped)
    /\ pc' = "done"
    /\ UNCHANGED <<units, inputs, meta_pos, file_channels, stages, samples, decoded, error>>

\* the documents of the metadata archive that
\* Filter(dp, path_comparator("name", "instances_{split}{year}.json")) keeps
CanonicalInstancesDocs(cfg, archive) ==
    LET kept == SelectSeq(archive, LAMBDA data :
                    PathName(data[1]) = <<"instances", "_", cfg.split, cfg.year, ".json">>)
    IN  [i \in DOMAIN kept |-> kept[i][2]]

\* meta[key] of a parsed document
DocValue(doc, key) == doc[CHOOSE i \in DOMAIN doc : doc[i][1] = key][2]

\* _generate_categories(root), whose result the dataset then holds as
\* self.categories
GenerateCategories ==
    /\ pc = "offline"
    /\ categories' =
          _generate_categories(
              DocValue(CanonicalInstancesDocs(config, meta_archive)[1], "categories"))
    /\ pc' = "vocabulary"
    /\ UNCHANGED <<units, config, meta_archive, images_archive, meta_pos, file_channels, stages,
                   samples, decoded, error>>

\* the instances decoder called on each annotation record of the canonical
\* file, one record per call
DecodeRecords ==
    /\ pc = "vocabulary"
    /\ decoded' =
          LET anns == DocValue(CanonicalInstancesDocs(config, meta_archive)[1], "annotations")
          IN  [i \in DOMAIN anns |-> _ANN_DECODER_MAP("instances", categories, PyDict(anns[i]))]
    /\ pc' = "decoded"
    /\ UNCHANGED <<units, inputs, meta_pos, file_channels, stages, samples, error>>

----------------------------------------------------------------------------
(* Specifications *)

\* the datapipes downstream of the metadata-file demultiplexer, up to the
\* final Mapper
StagesNext ==
    \/ DemuxMeta
    \/ GroupAnns
    \/ ZipImagesMeta
    \/ ConcatAndGroup
    \/ PrecollateAnns
    \/ ZipImages
    \/ Exhausted

\* a pass of the pipeline as _make_datapipe wires it.  CollateAndDecode is
\* not a step of it: NothingToDecode, an invariant of SpecWired, shows that
\* no joined pair ever reaches the final Mapper.
Next ==
    \/ MakeDatapipe
    \/ ClassifyMetaFile
    \/ MetaFilesExhausted
    \/ StagesNext

Spec == Init /\ [][Next]_vars

\* the same pass with the final Mapper's step included
NextWired == Next \/ CollateAndDecode

SpecWired == Init /\ [][NextWired]_vars

\* under SpecWired the final Mapper is never handed a pair
NothingToDecode == zipped = <<>>

\* the datapipes downstream of the metadata-file demultiplexer, on every
\* bounded content of its channels
NextStages == StagesNext \/ CollateAndDecode

SpecStages == InitStages /\ [][NextStages]_vars

\* the vocabulary and the per-record decoder
NextDecode == GenerateCategories \/ DecodeRecords

SpecDecode == InitDecode /\ [][NextDecode]_vars

----------------------------------------------------------------------------
(* Vocabulary of the properties *)

\* the pass has ended, by exhaustion or by an exception
Ended == pc \in {"done", "failed"}

\* channel (counted from 1) that the filename rule gives an entry: the one
\* of its kind if its base name matches the pattern with the configured
\* split and year and its kind is selected, 0 otherwise
IntendedChannel(data, cfg) ==
    LET match == _META_FILE_PATTERN(PathName(data[1]))
        types == AnnTypes(cfg)
    IN  IF /\ match.matched
           /\ match.split = cfg.split
           /\ match.year = cfg.year
           /\ match.ann_type \in Range(types)
        THEN CHOOSE i \in DOMAIN types : types[i] = match.ann_type
        ELSE 0

\* the records under a key of a document, [] if the key is absent
DocRecords(doc, key) ==
    Flatten([i \in DOMAIN doc |-> IF doc[i][1] = key THEN doc[i][2] ELSE <<>>])

\* the documents of the selected kinds in the metadata archive
SelectedDocs ==
    {meta_archive[k][2] : k \in {j \in DOMAIN meta_archive :
                                    IntendedChannel(meta_archive[j], config) > 0}}

\* an annotation of a document that references no image record of it
Orphans(doc) ==
    {ann \in Range(DocRecords(doc, "annotations")) :
        \A image \in Range(DocRecords(doc, "images")) : image.id # ann.image_id}

\* entity e has an image record and an annotation of a selected kind
\* referencing it, and an image archive entry named as its file_name
ValidEntity(e) ==
    \E doc \in SelectedDocs :
        /\ \E ann \in Range(DocRecords(doc, "annotations")) : ann.image_id = e
        /\ \E image \in Range(DocRecords(doc, "images")) :
              /\ image.id = e
              /\ \E entry \in Range(images_archive) : PathName(entry[1]) = image.file_name

\* positions of the samples of entity e
SamplesOf(e) == {i \in DOMAIN samples : PathName(samples[i].path) = FileName(e)}

\* the pass ended by an exception of the filename classifier: no later
\* datapipe has run
ClassifierRaised == pc = "failed" /\ images_meta = <<>>

\* number of joined pairs handed to _collate_and_decode_sample so far
Handled == IF pc = "failed" /\ zipped # <<>> THEN Len(samples) + 1 ELSE Len(samples)

----------------------------------------------------------------------------
(* C1, C4, C5, C7: the pass as _make_datapipe wires it *)

\* C1: when a pass has ended, it has yielded exactly one FinalSample for
\* each entity that has an image record, an annotation of a selected kind
\* and an image archive entry named as its file_name, and none for any
\* other entity.
C1_OneSamplePerValidEntity ==
    Ended => \A e \in ImageIds :
                Cardinality(SamplesOf(e)) = IF ValidEntity(e) THEN 1 ELSE 0

\* C4: an annotation whose image_id is the id of no image record of its
\* document is not an error and reaches no output: a pass over an input
\* with such an annotation ends without an exception, no associated entity
\* or collated payload holds the annotation, and every valid entity has
\* its sample.
C4_OrphanDroppedSilently ==
    (Ended /\ \E doc \in SelectedDocs : Orphans(doc) # {}) =>
        /\ error = ""
        /\ \A i \in DOMAIN partial_anns : \A k \in DOMAIN partial_anns[i] :
              \A ann \in Range(partial_anns[i][k][1]) :
                 ann.image_id = partial_anns[i][k][2].id
        /\ \A e \in ImageIds : ValidEntity(e) => SamplesOf(e) # {}

\* C5: when a pass has ended, every metadata entry that the filename
\* classifier gives a channel is in that channel's output as often as in
\* the archive and in no other channel, an entry it gives no channel is in
\* none, and the channels of each JSON demultiplexer hold exactly the
\* records under "images" and under "annotations" of the channel's
\* documents.
C5_DemuxConservation ==
    Ended =>
        /\ \A k \in DOMAIN meta_archive :
              LET data == meta_archive[k]
                  channel == _classifiy_meta_files(data, config.split, config.year,
                                                   TypeIdcs(AnnTypes(config)))
              IN  \A i \in 1..Len(AnnTypes(config)) :
                     /\ i \in DOMAIN file_channels
                     /\ Count(file_channels[i], data) =
                           IF channel = Return(i - 1) THEN Count(meta_archive, data) ELSE 0
        /\ \A i \in DOMAIN images_meta :
              /\ images_meta[i] = DocRecords(MetaItems(file_channels[i]), "images")
              /\ anns_meta[i] = DocRecords(MetaItems(file_channels[i]), "annotations")

\* C7: the filename classifier as the metadata-file demultiplexer calls it
\* raises nothing and routes an entry to channel i exactly if its base name
\* matches the pattern, its split and year are the configured ones and its
\* kind is the i-th selected kind: the channels hold the entries read so
\* far that the rule gives them, in order.
C7_FilesRoutedByPattern ==
    /\ ~ClassifierRaised
    /\ \A i \in DOMAIN file_channels :
          file_channels[i] =
             SelectSeq(SubSeq(meta_archive, 1, meta_pos),
                       LAMBDA data : IntendedChannel(data, config) = i)

----------------------------------------------------------------------------
(* C2, C3, C6, C8, C10: the datapipes downstream of the file demultiplexer *)

\* the annotations of the file of the i-th selected kind
KindAnnotations(i) == DocRecords(MetaItems(file_channels[i]), "annotations")

\* the selected kinds that have an annotation of the entity whose image
\* record has this file_name
KindsAnnotating(file_name) ==
    {AnnTypes(config)[i] : i \in
        {j \in DOMAIN file_channels :
            \E ann \in Range(KindAnnotations(j)) : FileName(ann.image_id) = file_name}}

\* C2: with two kinds selected, the kind mapping that _precollate_anns
\* makes for an entity with annotations of only one kind has that kind's
\* key and no other.
C2_OnlyAnnotatedKindKey ==
    \A k \in DOMAIN anns_dp :
        (Len(AnnTypes(config)) = 2 /\ Cardinality(KindsAnnotating(anns_dp[k][1])) = 1)
            => DOMAIN anns_dp[k][2] = KindsAnnotating(anns_dp[k][1])

\* number of pairs of a join's output whose left item is l
TimesEmitted(out, l) == Cardinality({k \in DOMAIN out : out[k][1] = l})

\* the join of the groups with the image records has run
PartialJoined == pc \notin {"new", "files", "demuxed", "grouping", "joining"}

\* the join of the collated entities with the image archive has run
ImagesJoined == pc \in {"decode", "done", "failed"} /\ ~ClassifierRaised

\* C3: in the output of each key-join, every pair has equal keys (image_id
\* of the group and id of the image record; file_name of the entity and
\* base name of the archive entry), a left item without a right item of
\* equal key is in no pair, and a left item with one is in exactly one.
C3_JoinInnerSemantics ==
    /\ PartialJoined =>
          \A i \in DOMAIN partial_anns :
             /\ \A k \in DOMAIN partial_anns[i] :
                   partial_anns[i][k][1][1].image_id = partial_anns[i][k][2].id
             /\ \A g \in DOMAIN partial_groups[i] :
                   TimesEmitted(partial_anns[i], partial_groups[i][g]) =
                      IF \E r \in DOMAIN images_meta[i] :
                            images_meta[i][r].id = partial_groups[i][g][1].image_id
                      THEN 1 ELSE 0
             /\ \A k \in DOMAIN partial_anns[i] :
                   /\ partial_anns[i][k][1] \in Range(partial_groups[i])
                   /\ partial_anns[i][k][2] \in Range(images_meta[i])
    /\ ImagesJoined =>
          /\ \A k \in DOMAIN zipped : zipped[k][1][1] = PathName(zipped[k][2][1])
          /\ \A g \in DOMAIN anns_dp :
                TimesEmitted(zipped, anns_dp[g]) =
                   IF \E r \in DOMAIN images_archive :
                         PathName(images_archive[r][1]) = anns_dp[g][1]
                   THEN 1 ELSE 0
          /\ \A k \in DOMAIN zipped :
                /\ zipped[k][1] \in Range(anns_dp)
                /\ zipped[k][2] \in Range(images_archive)

\* both joins have run, each has emitted a pair, and the first has dropped
\* a group that has no image record
C3_Witness ==
    /\ pc = "decode"
    /\ zipped # <<>>
    /\ \E i \in DOMAIN partial_anns :
          /\ partial_anns[i] # <<>>
          /\ Len(partial_anns[i]) < Len(partial_groups[i])

\* the Grouper by image_id has run
AnnsGrouped == pc \notin {"new", "files", "demuxed", "grouping"}

\* the Grouper by image record id has run
EntitiesGrouped == pc \in {"precollate", "zip", "decode", "done", "failed"} /\ ~ClassifierRaised

\* the annotations handed to the Grouper of the i-th kind that have key k
AnnsWithKey(i, k) == {j \in DOMAIN anns_meta[i] : anns_meta[i][j].image_id = k}

\* the associated entities handed to the second Grouper that have key k
EntitiesWithKey(k) ==
    {j \in DOMAIN Concater(partial_anns) : Concater(partial_anns)[j][2].id = k}

\* C6: each grouper emits, for every distinct key of its input (image_id
\* of an annotation; id of the image record of an associated entity),
\* exactly one group holding an item of that key, and that group has as
\* many items as the input has items of that key.
C6_GroupCompleteness ==
    /\ AnnsGrouped =>
          \A i \in DOMAIN anns_meta : \A k \in ImageIds :
             AnnsWithKey(i, k) # {} =>
                LET groups == {g \in DOMAIN partial_groups[i] :
                                  \E j \in DOMAIN partial_groups[i][g] :
                                     partial_groups[i][g][j].image_id = k}
                IN  /\ Cardinality(groups) = 1
                    /\ \A g \in groups :
                          Len(partial_groups[i][g]) = Cardinality(AnnsWithKey(i, k))
    /\ EntitiesGrouped =>
          \A k \in ImageIds :
             EntitiesWithKey(k) # {} =>
                LET groups == {g \in DOMAIN entity_groups :
                                  \E j \in DOMAIN entity_groups[g] :
                                     entity_groups[g][j][2].id = k}
                IN  /\ Cardinality(groups) = 1
                    /\ \A g \in groups :
                          Len(entity_groups[g]) = Cardinality(EntitiesWithKey(k))

\* both groupers have run; the first has emitted a group of two
\* annotations next to another group, the second a group of two
\* associated entities
C6_Witness ==
    /\ pc = "precollate"
    /\ \E i \in DOMAIN partial_groups : \E g \in DOMAIN partial_groups[i] :
          Len(partial_groups[i][g]) = 2
    /\ \E g \in DOMAIN entity_groups : Len(entity_groups[g]) = 2

\* the decode of one raw annotation record of a kind
DecodedRecord(type, ann) == _ANN_DECODER_MAP(type, categories, PyDict(ann))

\* C8: every joined pair handed to the final Mapper has become a sample
\* whose payload under each kind key holds, for each raw annotation of the
\* group under that key, the decode of that one record.
C8_DecodedOncePerRecord ==
    \A k \in 1..Handled :
        /\ k <= Len(samples)
        /\ \A type \in DOMAIN zipped[k][1][2] :
              LET group == zipped[k][1][2][type]
              IN  /\ \A j \in DOMAIN group : DecodedRecord(type, group[j]).tag = "return"
                  /\ samples[k].anns[type] =
                        [j \in DOMAIN group |-> DecodedRecord(type, group[j]).val]

\* C10: every joined pair handed to the final Mapper has become a sample
\* whose path is the file_name of the entity's image record, also when the
\* matched archive entry lies under a directory.
C10_PathIsFileName ==
    \A k \in 1..Handled :
        /\ k <= Len(samples)
        /\ samples[k].path = <<zipped[k][1][1]>>

----------------------------------------------------------------------------
(* C9: the vocabulary and the instances decoder *)

\* the canonical instances document of the metadata archive
CanonicalDoc == CanonicalInstancesDocs(config, meta_archive)[1]

\* C9: with the vocabulary built from categories of distinct ids, the
\* decode of an instances annotation of one of these categories succeeds
\* and its category is the number of categories of smaller id, a position
\* in 0..N-1.
C9_CategoryIsRankById ==
    pc = "decoded" =>
        LET cats == DocRecords(CanonicalDoc, "categories")
            anns == DocRecords(CanonicalDoc, "annotations")
        IN  \A i \in DOMAIN anns :
               /\ i \in DOMAIN decoded
               /\ decoded[i].tag = "return"
               /\ decoded[i].val.category =
                     Cardinality({c \in DOMAIN cats : cats[c].id < anns[i].category_id})
               /\ decoded[i].val.category \in 0..(Len(cats) - 1)

----------------------------------------------------------------------------
(* C11: misses of the join with the image archive *)

\* the collated entities whose file_name names no entry of the image archive
MissingImage ==
    {g \in DOMAIN anns_dp :
        \A r \in DOMAIN images_archive : PathName(images_archive[r][1]) # anns_dp[g][1]}

\* the image archive entries whose name is the file_name of no collated entity
Unreferenced ==
    {r \in DOMAIN images_archive :
        \A g \in DOMAIN anns_dp : anns_dp[g][1] # PathName(images_archive[r][1])}

\* C11: once the join with the image archive has run, a collated entity
\* whose file_name names no archive entry is in no joined pair and no
\* sample, and an archive entry that no collated entity references is in no
\* joined pair and no sample; a miss raises nothing and does not stop the
\* join: the collated entities that do have an entry are all joined, and an
\* exception can only come from a joined pair.
C11_JoinMissIsSilent ==
    ImagesJoined =>
        /\ \A g \in MissingImage :
              /\ \A k \in DOMAIN zipped : zipped[k][1] # anns_dp[g]
              /\ \A k \in DOMAIN samples : PathName(samples[k].path) # anns_dp[g][1]
        /\ \A r \in Unreferenced :
              /\ \A k \in DOMAIN zipped : zipped[k][2] # images_archive[r]
              /\ \A k \in DOMAIN samples : samples[k].image # images_archive[r][2]
        /\ \A g \in DOMAIN anns_dp \ MissingImage :
              \E k \in DOMAIN zipped : zipped[k][1] = anns_dp[g]
        /\ (pc = "failed" \/ error # "") => zipped # <<>>

\* the join has run on an entity without an archive entry and an archive
\* entry without an entity, and the pass has ended by exhaustion
C11_Witness ==
    /\ pc = "done"
    /\ error = ""
    /\ MissingImage # {}
    /\ Unreferenced # {}

----------------------------------------------------------------------------
(* C12: instances annotations that lack a field *)

\* the fields that _decode_instances_ann reads
InstancesFields == {"area", "iscrowd", "bbox", "category_id", "id"}

\* a record without one of its fields
Without(ann, field) == [k \in DOMAIN ann \ {field} |-> ann[k]]

\* annotations lists of an instances document in which any record may lack
\* one of the fields the decoder reads
MalformedAnnLists ==
    UNION {
        {[i \in 1..n |->
             IF choice[i][2] = "none"
             THEN InstancesAnn(10 + i, choice[i][1], 3)
             ELSE Without(InstancesAnn(10 + i, choice[i][1], 3), choice[i][2])] :
            choice \in [1..n -> ImageIds \X ({"none"} \cup InstancesFields)]} :
        n \in 0..MaxAnns}

\* the metadata-file demultiplexer has routed the instances file, whose
\* annotations may lack fields, and the captions file if selected; both
\* images are described and are in the image archive
InitMalformed ==
    /\ config \in {c \in Configs : c.split = "train" /\ c.year = "2017" /\ c.instances}
    /\ \E anns \in MalformedAnnLists :
         file_channels =
            [i \in 1..Len(AnnTypes(config)) |->
                <<<<MetaPath(<<AnnTypes(config)[i], "_", "train", "2017", ".json">>),
                    MakeDoc(<<"categories", "images", "annotations">>,
                            <<ImageRecord(1), ImageRecord(2)>>,
                            IF AnnTypes(config)[i] = "instances" THEN anns
                            ELSE MakeAnns("captions", <<1>>),
                            StandardCategories)>>>>]
    /\ meta_archive = Flatten(file_channels)
    /\ meta_pos = Len(meta_archive)
    /\ images_archive = <<ImageEntry(<<FileName(1)>>),
                          ImageEntry(<<<<"train", "2017">>, FileName(2)>>)>>
    /\ categories = _generate_categories(StandardCategories)
    /\ pc = "demuxed"
    /\ StagesEmpty

\* the datapipes downstream of the metadata-file demultiplexer, on
\* instances files with malformed records
SpecMalformed == InitMalformed /\ [][NextStages]_vars

\* an instances annotation that lacks a field the decoder reads
MalformedRecord(ann) == KindOf(ann) = "instances" /\ ~(InstancesFields \subseteq DOMAIN ann)

\* the malformed records of the entity of a joined pair
MalformedOf(pair) ==
    {ann \in UNION {Range(pair[1][2][type]) : type \in DOMAIN pair[1][2]} :
        MalformedRecord(ann)}

\* a sample with the reserved keys whose payloads are lists of decoded
\* records: an instances record has exactly the decoder's five fields
WellFormedSample(sample) ==
    /\ DOMAIN sample = {"anns", "path", "image"}
    /\ \A type \in DOMAIN sample.anns : \A j \in DOMAIN sample.anns[type] :
          type = "instances" =>
             DOMAIN sample.anns[type][j] = {"area", "iscrowd", "bbox", "category", "id"}

\* C12: the decode of an instances record that lacks area, iscrowd, bbox,
\* category_id or id raises; once the joined pair of an entity with such a
\* record has been handed to the final Mapper the pass has failed with that
\* exception, a pass with such a pair never ends by exhaustion, no sample
\* is ever emitted for the entity, and every sample emitted is well-formed.
C12_MalformedRecordFailsPass ==
    /\ \A k \in DOMAIN zipped :
          MalformedOf(zipped[k]) # {} =>
             /\ \A ann \in MalformedOf(zipped[k]) :
                   DecodedRecord("instances", ann).tag = "raise"
             /\ k <= Handled => (pc = "failed" /\ error # "" /\ k > Len(samples))
             /\ pc # "done"
             /\ \A j \in DOMAIN samples : PathName(samples[j].path) # zipped[k][1][1]
    /\ \A j \in DOMAIN samples : WellFormedSample(samples[j])

\* the pass has failed on the joined pair of an entity with an instances
\* record that lacks a field
C12_Witness ==
    /\ pc = "failed"
    /\ error # ""
    /\ Handled \in DOMAIN zipped
    /\ MalformedOf(zipped[Handled]) # {}

----------------------------------------------------------------------------
(* C13: a consumer that keeps pulling *)

\* a pass whose consumer keeps pulling: whenever a step of the pass can be
\* taken, one eventually is
SpecLive == Spec /\ WF_vars(Next)

\* the pass eventually ends, by exhaustion or by an exception
PassEnds == <>Ended

\* C13: on finite archives a consumer that keeps pulling eventually
\* reaches exhaustion of the pipeline.
C13_ReachesExhaustion == <>(pc = "done")

----------------------------------------------------------------------------
(* C14: the structural-key classifier *)

\* most (key, value) items in a document handed to the JSON demultiplexer
MaxItems == 2

\* top-level keys of documents: the two recognized ones, other keys of the
\* dataset's files, and near misses
TopLevelKeys ==
    {"images", "annotations", "categories", "info", "licenses", "image", "Images",
     "annotation"}

\* values under top-level keys
TopLevelValues == {<<>>, <<ImageRecord(1)>>, <<CaptionsAnn(21, 1)>>}

\* a document with any keys in any order, repeated keys included, has
\* been routed to the first channel; no item has been classified
InitClassify ==
    /\ config = DefaultConfig
    /\ \E doc \in SeqsUpTo(TopLevelKeys \X TopLevelValues, MaxItems) :
         file_channels = <<<<<<MetaPath(<<"instances", "_", "train", "2017", ".json">>), doc>>>>>>
    /\ meta_archive = Flatten(file_channels)
    /\ meta_pos = Len(meta_archive)
    /\ images_archive = <<>>
    /\ categories = <<>>
    /\ pc = "classify"
    /\ StagesEmpty

\* the JSON Demultiplexer calls self._classify_meta on the next item
ClassifyMeta ==
    /\ pc = "classify"
    /\ Len(classify_calls) < Len(MetaItems(file_channels[1]))
    /\ LET data == MetaItems(file_channels[1])[Len(classify_calls) + 1]
       IN  classify_calls' = Append(classify_calls, <<data, _classify_meta(data)>>)
    /\ UNCHANGED <<inputs, pc, meta_pos, file_channels, stages, samples, decoded, error,
                   first_pass, grouper>>

\* the classifier called on the items of a document, one after another
SpecClassify == InitClassify /\ [][ClassifyMeta]_vars

\* C14: every call of _classify_meta returns channel 0 if the key is
\* exactly "images", channel 1 if it is exactly "annotations" and None for
\* every other key; it never raises, and two calls with the same key
\* return the same, whatever the values and whatever was classified before.
C14_ClassifyMetaByExactKey ==
    /\ \A k \in DOMAIN classify_calls :
          LET key == classify_calls[k][1][1]
              channel == classify_calls[k][2]
          IN  /\ channel.tag \in {"return", "None"}
              /\ key = "images" <=> channel = Return(0)
              /\ key = "annotations" <=> channel = Return(1)
              /\ key \notin {"images", "annotations"} <=> channel = ReturnNone
    /\ \A k, l \in DOMAIN classify_calls :
          classify_calls[k][1][1] = classify_calls[l][1][1] => classify_calls[k][2] = classify_calls[l][2]

\* the classifier has been called twice with the same key and different
\* values, and on a key it does not recognize
C14_Witness ==
    \E k, l \in DOMAIN classify_calls :
        /\ k < l
        /\ classify_calls[k][1][1] = "annotations"
        /\ classify_calls[l][1][1] = "annotations"
        /\ classify_calls[k][1][2] # classify_calls[l][1][2]

----------------------------------------------------------------------------
(* C15: two pipelines over the same inputs *)

\* after the pass of the first pipeline has ended, _make_datapipe is
\* called again on the same archives and configuration: every datapipe is
\* a new object, and the file demultiplexer's channels hold what they held
\* for the first pipeline
SecondPipeline ==
    /\ Ended
    /\ first_pass = NoPass
    /\ first_pass' = [built |-> TRUE, pc |-> pc, error |-> error, samples |-> samples,
                      anns_dp |-> anns_dp, zipped |-> zipped]
    /\ pc' = "demuxed"
    /\ images_meta' = <<>>
    /\ anns_meta' = <<>>
    /\ partial_groups' = <<>>
    /\ partial_anns' = <<>>
    /\ entity_groups' = <<>>
    /\ anns_dp' = <<>>
    /\ zipped' = <<>>
    /\ samples' = <<>>
    /\ error' = ""
    /\ UNCHANGED <<inputs, meta_pos, file_channels, decoded, classify_calls, grouper>>

\* the pass of one pipeline and then the pass of a second one
NextTwice == NextStages \/ SecondPipeline

SpecTwice == InitStages /\ [][NextTwice]_vars

----------------------------------------------------------------------------
(* C16: arrival orders *)

\* s with its items at positions j and j + 1 exchanged
Swap(s, j) ==
    [k \in DOMAIN s |-> IF k = j THEN s[j + 1] ELSE IF k = j + 1 THEN s[j] ELSE s[k]]

\* the sequences that differ from s by an exchange of two neighbours
Swaps(s) == {Swap(s, j) : j \in 1..(Len(s) - 1)}

\* the metadata archives that differ from archive by an exchange of two
\* neighbours: two entries, two top-level keys of a document, or two
\* records of a list under a key of a document
Rearranged(archive) ==
    Swaps(archive)
    \cup UNION {{[archive EXCEPT ![e] = <<@[1], doc>>] : doc \in Swaps(archive[e][2])} :
                   e \in DOMAIN archive}
    \cup UNION {UNION {{[archive EXCEPT ![e] =
                            <<@[1], [archive[e][2] EXCEPT ![i] = <<@[1], value>>]>>] :
                           value \in Swaps(archive[e][2][i][2])} :
                          i \in DOMAIN archive[e][2]} :
                   e \in DOMAIN archive}

\* the channels of the metadata-file Demultiplexer for an archive, by the
\* body of _classifiy_meta_files
RoutedChannels(archive, cfg) ==
    Demultiplexer(archive, Len(AnnTypes(cfg)),
                  [i \in DOMAIN archive |->
                      _classifiy_meta_files(archive[i], cfg.split, cfg.year,
                                            TypeIdcs(AnnTypes(cfg)))])

\* sequences without repetition
Distinct(S) == {s \in S : \A i, j \in DOMAIN s : i # j => s[i] # s[j]}

\* both kinds are selected and the metadata-file demultiplexer has routed
\* their files; image records and archive entries are unique
InitOrder ==
    /\ config = [split |-> "train", year |-> "2017", instances |-> TRUE, captions |-> TRUE]
    /\ \E images \in Distinct(ImageLists), ids \in ImageIdLists("instances"),
          caption_ids \in ImageIdLists("captions") :
         meta_archive =
            <<KindEntry("instances", <<"categories", "images", "annotations">>, images, ids,
                        StandardCategories),
              KindEntry("captions", <<"categories", "images", "annotations">>, images,
                        caption_ids, StandardCategories)>>
    /\ file_channels = RoutedChannels(meta_archive, config)
    /\ meta_pos = Len(meta_archive)
    /\ images_archive \in Distinct(ImageArchives)
    /\ categories = _generate_categories(StandardCategories)
    /\ pc = "demuxed"
    /\ StagesEmpty

\* after the pass of the first pipeline has ended, a pipeline is built
\* over the same records arriving in another order: two neighbouring
\* entries of the image archive, or two neighbours of the metadata
\* archive, are exchanged
PermutedPipeline ==
    /\ Ended
    /\ first_pass = NoPass
    /\ first_pass' = [built |-> TRUE, pc |-> pc, error |-> error, samples |-> samples,
                      anns_dp |-> anns_dp, zipped |-> zipped]
    /\ \/ /\ images_archive' \in Swaps(images_archive)
          /\ UNCHANGED <<meta_archive, file_channels>>
       \/ /\ meta_archive' \in Rearranged(meta_archive)
          /\ file_channels' = RoutedChannels(meta_archive', config)
          /\ UNCHANGED images_archive
    /\ pc' = "demuxed"
    /\ images_meta' = <<>>
    /\ anns_meta' = <<>>
    /\ partial_groups' = <<>>
    /\ partial_anns' = <<>>
    /\ entity_groups' = <<>>
    /\ anns_dp' = <<>>
    /\ zipped' = <<>>
    /\ samples' = <<>>
    /\ error' = ""
    /\ UNCHANGED <<config, categories, meta_pos, decoded, classify_calls, grouper>>

\* the pass of one pipeline and then the pass of one over the rearranged
\* input
NextOrder == NextStages \/ PermutedPipeline

SpecOrder == InitOrder /\ [][NextOrder]_vars

\* a kind mapping with each payload as the set of its records
Unordered(mapping) == [type \in DOMAIN mapping |-> Range(mapping[type])]

\* the joined pairs of a pass as a set, each with its payloads unordered
JoinedSet(pairs) ==
    {<<pairs[k][1][1], Unordered(pairs[k][1][2]), pairs[k][2]>> : k \in DOMAIN pairs}

\* the samples of a pass as a set, each with its payloads unordered
SampleSet(out) ==
    {[path |-> out[k].path, image |-> out[k].image, anns |-> Unordered(out[k].anns)] :
        k \in DOMAIN out}

\* C16: when the pass over an input that differs from the first pass's
\* input by an exchange of two neighbouring archive entries, metadata
\* files, top-level keys or records has ended, it has emitted the same set
\* of samples, joined the same set of entities with the same archive
\* entries and the same records under the same kind keys, and ended in the
\* same way; any reordering is a sequence of such exchanges.
C16_SameSamplesInAnyOrder ==
    (first_pass # NoPass /\ Ended) =>
        /\ SampleSet(samples) = SampleSet(first_pass.samples)
        /\ Len(samples) = Len(first_pass.samples)
        /\ JoinedSet(zipped) = JoinedSet(first_pass.zipped)
        /\ Len(zipped) = Len(first_pass.zipped)
        /\ pc = first_pass.pc
        /\ error = first_pass.error

\* the pass over a rearranged input has ended and has joined the same two
\* entities as the first pass in the other order
C16_Witness ==
    /\ first_pass # NoPass
    /\ Ended
    /\ Len(zipped) = 2
    /\ zipped # first_pass.zipped
    /\ zipped[1] = first_pass.zipped[2]

----------------------------------------------------------------------------
(* C17: a Grouper pulled item by item *)

\* the sources of the Grouper by image_id: the unbatched annotations of a
\* document of either kind
AnnsSources ==
    {MakeAnns(kind, ids) : kind \in Range(_ANN_TYPES), ids \in ImageIdLists("instances")}

\* the sources of the Grouper by image record id: the concatenation of
\* the instances and the captions channel
EntitySources ==
    {Concater(<<PartialAnns(PartialGroups(MakeAnns("instances", ids)), images),
                PartialAnns(PartialGroups(MakeAnns("captions", caption_ids)), images)>>) :
        ids \in ImageIdLists("instances"), caption_ids \in ImageIdLists("captions"),
        images \in ImageLists}

\* group_key_fn of the Grouper of _make_partial_anns_dp ("image_id") or of
\* _make_anns_dp ("id")
GroupKey(of, item) == IF of = "image_id" THEN AnnsGroupKeyFn(item) ELSE EntityGroupKeyFn(item)

\* a Grouper with buffer_size=INFINITE_BUFFER_SIZE over a source, before
\* the first pull
InitGrouper ==
    /\ config = DefaultConfig
    /\ meta_archive = <<>>
    /\ images_archive = <<>>
    /\ categories = <<>>
    /\ meta_pos = 0
    /\ file_channels = <<>>
    /\ pc = "grouper"
    /\ images_meta = <<>>
    /\ anns_meta = <<>>
    /\ partial_groups = <<>>
    /\ partial_anns = <<>>
    /\ entity_groups = <<>>
    /\ anns_dp = <<>>
    /\ zipped = <<>>
    /\ samples = <<>>
    /\ decoded = <<>>
    /\ error = ""
    /\ classify_calls = <<>>
    /\ first_pass = NoPass
    /\ \E of \in {"image_id", "id"} :
         \E source \in IF of = "image_id" THEN AnnsSources ELSE EntitySources :
            grouper = [of |-> of, source |-> source, read |-> 0, buffer |-> <<>>, out |-> <<>>]

\* the Grouper reads the next item of its source into the buffer: into the
\* list of its key, a new last one if the key is new
GrouperRead ==
    /\ pc = "grouper"
    /\ grouper.read < Len(grouper.source)
    /\ LET item == grouper.source[grouper.read + 1]
           key == GroupKey(grouper.of, item)
           buffer == grouper.buffer
       IN  grouper' =
              [grouper EXCEPT
                 !.read = @ + 1,
                 !.buffer =
                    IF \E b \in DOMAIN buffer : buffer[b].key = key
                    THEN [b \in DOMAIN buffer |->
                             IF buffer[b].key = key
                             THEN [buffer[b] EXCEPT !.items = Append(@, item)]
                             ELSE buffer[b]]
                    ELSE Append(buffer, [key |-> key, items |-> <<item>>])]
    /\ UNCHANGED <<inputs, pc, meta_pos, file_channels, stages, samples, decoded, error,
                   classify_calls, first_pass>>

\* the source is exhausted: the Grouper yields the oldest list of the buffer
GrouperYield ==
    /\ pc = "grouper"
    /\ grouper.read = Len(grouper.source)
    /\ grouper.buffer # <<>>
    /\ grouper' = [grouper EXCEPT !.out = Append(@, Head(grouper.buffer).items),
                                  !.buffer = Tail(@)]
    /\ UNCHANGED <<inputs, pc, meta_pos, file_channels, stages, samples, decoded, error,
                   classify_calls, first_pass>>

NextGrouper == GrouperRead \/ GrouperYield

SpecGrouper == InitGrouper /\ [][NextGrouper]_vars

\* the entity an item of a grouper's source belongs to: the image_id of an
\* annotation, the id of the image record of an associated entity
EntityOf(of, item) == IF of = "image_id" THEN item.image_id ELSE item[2].id

\* positions of the source of the items of entity e
PositionsOf(e) ==
    {i \in DOMAIN grouper.source : EntityOf(grouper.of, grouper.source[i]) = e}

\* position at which entity e is first seen in the source
FirstSeen(e) == CHOOSE i \in PositionsOf(e) : \A j \in PositionsOf(e) : i <= j

\* C17: a grouper has emitted no group while its source has items left;
\* the groups it has emitted are in the order in which their keys (the
\* image_id of annotations, the image record id of associated entities)
\* were first seen, each holds the source's items of its key in arrival
\* order, and once its buffer is empty its output is what the pipeline's
\* Grouper stage yields.
C17_GroupsAtExhaustionInFirstSeenOrder ==
    pc = "grouper" =>
        /\ grouper.out # <<>> => grouper.read = Len(grouper.source)
        /\ \A g \in DOMAIN grouper.out :
              LET group == grouper.out[g]
              IN  /\ group # <<>>
                  /\ group = Pick(grouper.source,
                                  PositionsOf(EntityOf(grouper.of, group[1])))
        /\ \A g, h \in DOMAIN grouper.out :
              g < h => FirstSeen(EntityOf(grouper.of, grouper.out[g][1]))
                          < FirstSeen(EntityOf(grouper.of, grouper.out[h][1]))
        /\ (grouper.read = Len(grouper.source) /\ grouper.buffer = <<>>) =>
              /\ grouper.out =
                    Grouper(grouper.source,
                            [i \in DOMAIN grouper.source |->
                                GroupKey(grouper.of, grouper.source[i])])
              /\ \A i \in DOMAIN grouper.source :
                    \E g \in DOMAIN grouper.out :
                       EntityOf(grouper.of, grouper.out[g][1])
                          = EntityOf(grouper.of, grouper.source[i])

\* the grouper of associated entities has emitted two groups, the one of
\* image 2 before the one of image 1, and the second holds two items
C17_Witness ==
    /\ pc = "grouper"
    /\ grouper.of = "id"
    /\ grouper.buffer = <<>>
    /\ Len(grouper.out) = 2
    /\ EntityOf(grouper.of, grouper.out[1][1]) = 2
    /\ EntityOf(grouper.of, grouper.out[2][1]) = 1
    /\ Len(grouper.out[2]) = 2

----------------------------------------------------------------------------
(* C18: the kind key of a payload *)

\* C18: under every kind key of a collated entity, and so in every group
\* that _collate_and_decode_sample hands to that kind's decoder, there are
\* only annotations read from the metadata file of that kind.
C18_PayloadOfItsKind ==
    /\ \A k \in DOMAIN anns_dp : \A type \in DOMAIN anns_dp[k][2] :
          \A ann \in Range(anns_dp[k][2][type]) : KindOf(ann) = type
    /\ \A k \in DOMAIN zipped : \A type \in DOMAIN zipped[k][1][2] :
          \A ann \in Range(zipped[k][1][2][type]) : KindOf(ann) = type

----------------------------------------------------------------------------
(* C19: well-formed input *)

\* the metadata archive has the file of every selected kind; its
\* annotations carry all fields of their kind and categories of the
\* vocabulary, and image ids are unique within each file
WellFormedInput ==
    /\ \A i \in DOMAIN AnnTypes(config) :
          \E k \in DOMAIN meta_archive : IntendedChannel(meta_archive[k], config) = i
    /\ \A doc \in SelectedDocs :
          /\ \A ann \in Range(DocRecords(doc, "annotations")) :
                /\ ~MalformedRecord(ann)
                /\ KindOf(ann) = "instances" =>
                      \E c \in Range(StandardCategories) : c.id = ann.category_id
          /\ \A i, j \in DOMAIN DocRecords(doc, "images") :
                i # j => DocRecords(doc, "images")[i].id # DocRecords(doc, "images")[j].id

\* C19: a pass over well-formed input raises no exception at any stage,
\* the first call of the filename classifier included.
C19_NoFailureOnWellFormedInput ==
    WellFormedInput => (pc # "failed" /\ error = "")

----------------------------------------------------------------------------
(* C20: the lists handed to _precollate_anns *)

\* image ids are unique within the file of each kind
UniqueImageIds ==
    \A i \in DOMAIN file_channels :
        LET images == DocRecords(MetaItems(file_channels[i]), "images")
        IN  \A j, k \in DOMAIN images : j # k => images[j].id # images[k].id

\* C20: with image ids unique within each kind's file, every list that
\* the Mapper hands to _precollate_anns is non-empty, its pairs all carry
\* an image record of the same id, no two of its pairs hold annotations
\* of the same kind, and it is no longer than the number of selected
\* kinds.
C20_PrecollateInput ==
    UniqueImageIds =>
        \A g \in DOMAIN entity_groups :
            LET data == entity_groups[g]
            IN  /\ data # <<>>
                /\ \A i \in DOMAIN data : data[i][1] # <<>>
                /\ \A i, j \in DOMAIN data : data[i][2].id = data[j][2].id
                /\ \A i, j \in DOMAIN data :
                      i # j => KindOf(data[i][1][1]) # KindOf(data[j][1][1])
                /\ \A i \in DOMAIN data : KindOf(data[i][1][1]) \in Range(AnnTypes(config))
                /\ Len(data) <= Len(AnnTypes(config))

\* _precollate_anns has been handed a list with a pair of each of the two
\* selected kinds, the instances pair holding two annotations
C20_Witness ==
    /\ pc = "zip"
    /\ UniqueImageIds
    /\ \E g \in DOMAIN entity_groups :
          /\ Len(entity_groups[g]) = 2
          /\ Len(entity_groups[g][1][1]) = 2

====
